---- MODULE Spec2Model ----
(***************************************************************************)
(* Model of services/JobsService.js: the two request handlers              *)
(* searchAndListJobs and getJobDetails over the JSON files data/jobs.json  *)
(* and data/job-details.json.                                              *)
(*                                                                         *)
(* seen is a history variable: the invocation and the outcome a caller     *)
(* has kept from an earlier call (SpecRepeat only).  frames holds the      *)
(* invocations in flight at the same time, each with its own bindings      *)
(* (SpecConcurrent only).                                                  *)
(*                                                                         *)
(* Strings are sequences of one-character strings so that toLowerCase and  *)
(* includes are computed, not assumed.  A JavaScript number that may be    *)
(* Infinity or NaN (totalPages) is a record [kind, v].                     *)
(***************************************************************************)
EXTENDS Integers, Sequences, FiniteSets, TLC

VARIABLES jobsFile, detailsFile, call, locals, response, seen, frames

vars == <<jobsFile, detailsFile, call, locals, response, seen, frames>>

----------------------------------------------------------------------------
(* Bounds of the model *)

MaxJobs == 2
MaxDetails == 2
MaxNegPage == 1
MaxPage == 4
MaxLimit == 3
MaxInflight == 2

(* Program constants *)

DefaultPage == 1
DefaultLimit == 10
NotFoundStatus == 404
FallbackStatus == 405
SuccessStatus == 200
ExampleSize == 10
ExampleLimit == 5
MockSize == 23

----------------------------------------------------------------------------
(* Strings *)

toLowerCaseChar(c) ==
  CASE c = "A" -> "a" [] c = "B" -> "b" [] c = "C" -> "c" [] c = "D" -> "d"
    [] c = "E" -> "e" [] c = "G" -> "g" [] c = "L" -> "l" [] c = "N" -> "n"
    [] c = "O" -> "o" [] c = "P" -> "p" [] c = "Q" -> "q" [] c = "S" -> "s"
    [] c = "V" -> "v" [] c = "X" -> "x" [] c = "Y" -> "y" [] c = "Z" -> "z"
    [] OTHER -> c

\* String.prototype.toLowerCase
toLowerCase(s) == [i \in 1..Len(s) |-> toLowerCaseChar(s[i])]

\* String.prototype.includes: t occurs in s as a contiguous run
includes(s, t) ==
  \E i \in 0..(Len(s) - Len(t)) : SubSeq(s, i + 1, i + Len(t)) = t

----------------------------------------------------------------------------
(* Records of data/jobs.json and data/job-details.json *)

Job(id, title, company, location, description) ==
  [id |-> id, title |-> title, company |-> company, location |-> location,
   description |-> description]

\* "en" occurs in the title of j1, the company of j2 and the location of j3
\* only; "ng" in the title of j1 and the company of j2 only; "ny" in the
\* location of j1 only; "ac" in the company of j1 and in no location
JobPool ==
  { Job("j1", <<"E","n","g">>, <<"A","c">>, <<"N","Y">>, <<"x">>),
    Job("j2", <<"d","e","v">>, <<"E","N","g">>, <<"l","a">>, <<"o","p">>),
    Job("j3", <<"o","p","s">>, <<"b","c">>, <<"G","e","n">>, <<"n","g">>) }

ExampleIds == <<"t0","t1","t2","t3","t4","t5","t6","t7","t8","t9">>

\* the ten-job data set of the pagination test (10 jobs, 2 pages with limit=5)
\* the last three are in "Gen", the others in "la"
TenJobs ==
  [i \in 1..ExampleSize |->
     Job(ExampleIds[i], <<"d","e","v">>, <<"z">>,
         IF i + 3 > ExampleSize THEN <<"G","e","n">> ELSE <<"l","a">>, <<"d">>)]

\* the mock data set of 23 jobs: more than one default page; every third
\* record, from the second on, is in "Gen", the others in "la"
MockIds ==
  <<"m01","m02","m03","m04","m05","m06","m07","m08","m09","m10","m11","m12",
    "m13","m14","m15","m16","m17","m18","m19","m20","m21","m22","m23">>

MockJobs ==
  [i \in 1..MockSize |->
     Job(MockIds[i], <<"d","e","v">>, <<"z">>,
         IF i % 3 = 2 THEN <<"G","e","n">> ELSE <<"l","a">>, <<"d">>)]

DetailPool ==
  { Job("j1", <<"E","n","g">>, <<"A","c">>, <<"N","Y">>, <<"x">>),
    Job("j2", <<"d","e","v">>, <<"E","N","g">>, <<"l","a">>, <<"o","p">>),
    Job("j9", <<"q","a">>, <<"z">>, <<"G","e","n">>, <<"d">>) }

\* ordered collections of at most n records of pool with pairwise distinct ids
Collections(pool, n) ==
  UNION { { s \in [1..k -> pool] :
              \A i, j \in 1..k : i # j => s[i].id # s[j].id } : k \in 0..n }

\* a file cannot be read or parsed, parses without the expected key, or
\* holds a collection under the expected key
File(kind, records) == [kind |-> kind, records |-> records]

BrokenFiles == { File(k, <<>>) : k \in {"unreadable", "nokey"} }

JobsFiles ==
  BrokenFiles \cup
  { File("ok", c) : c \in Collections(JobPool, MaxJobs) \cup {TenJobs, MockJobs} }

DetailsFiles ==
  BrokenFiles \cup { File("ok", c) : c \in Collections(DetailPool, MaxDetails) }

----------------------------------------------------------------------------
(* Arguments *)

\* an optional string argument: left out, null, or a string (maybe empty);
\* a caller that does not validate may also pass a non-string, here the
\* one-element array [text] of a repeated query parameter
StrArg(kind, text) == [kind |-> kind, text |-> text]

QArgs ==
  { StrArg("undefined", <<>>), StrArg("null", <<>>), StrArg("array", <<"e","n">>) } \cup
  { StrArg("string", t) :
      t \in { <<>>, <<"e","n">>, <<"N","G">> } }

LocationArgs ==
  { StrArg("undefined", <<>>), StrArg("null", <<>>) } \cup
  { StrArg("string", t) :
      t \in { <<>>, <<"N","y">>, <<"a","c">>, <<"e","n">> } }

\* an optional integer argument: left out, or an integer
IntArg(given, v) == [given |-> given, v |-> v]

PageArgs == { IntArg(FALSE, 0) } \cup { IntArg(TRUE, n) : n \in (0 - MaxNegPage)..MaxPage }

LimitArgs ==
  { IntArg(FALSE, 0) } \cup { IntArg(TRUE, n) : n \in (0..MaxLimit) \cup {ExampleLimit} }

JobIds == { "j1", "j2", "j9", "zz" }

----------------------------------------------------------------------------
(* Service.js response helpers *)

NoJob == Job("", <<>>, <<>>, <<>>, <<>>)

Num(kind, v) == [kind |-> kind, v |-> v]

NoPagination ==
  [total |-> 0, page |-> 0, limit |-> 0, totalPages |-> Num("finite", 0)]

\* no invocation has settled a promise
NoResponse ==
  [settled |-> "none", code |-> 0, error |-> "", jobs |-> <<>>,
   pagination |-> NoPagination, job |-> NoJob]

\* Service.successResponse(payload): { payload, code: 200 }
successResponse(jobs, pagination, job) ==
  [settled |-> "resolve", code |-> SuccessStatus, error |-> "", jobs |-> jobs,
   pagination |-> pagination, job |-> job]

\* Service.rejectResponse(error, code): { error, code }
rejectResponse(error, code) ==
  [settled |-> "reject", code |-> code, error |-> error, jobs |-> <<>>,
   pagination |-> NoPagination, job |-> NoJob]

----------------------------------------------------------------------------
(* searchAndListJobs *)

\* try { JSON.parse(readFileSync(...)).jobs || [] } catch { [] }
loadRecords(file) == IF file.kind = "ok" THEN file.records ELSE <<>>

\* a test for "not undefined" in place of truthiness
Truthy_notUndefined(arg) == arg.kind # "undefined"

\* if (q), if (location): null, undefined and "" are falsy, an array is truthy
Truthy(arg) == (arg.kind = "string" /\ arg.text # <<>>) \/ arg.kind = "array"

\* the q filter without the company field
matchesQuery_noCompany(job, query) ==
  \/ includes(toLowerCase(job.title), query)
  \/ includes(toLowerCase(job.location), query)

\* the predicate of the q filter, query already lower-cased
matchesQuery(job, query) ==
  \/ includes(toLowerCase(job.title), query)
  \/ includes(toLowerCase(job.company), query)
  \/ includes(toLowerCase(job.location), query)

\* the location filter looking at every field the q filter looks at
matchesLocation_anyField(job, locationQuery) ==
  \/ includes(toLowerCase(job.title), locationQuery)
  \/ includes(toLowerCase(job.company), locationQuery)
  \/ includes(toLowerCase(job.location), locationQuery)

\* the predicate of the location filter, locationQuery already lower-cased
matchesLocation(job, locationQuery) ==
  includes(toLowerCase(job.location), locationQuery)

filterByQuery(jobs, q) ==
  IF Truthy(q)
    THEN SelectSeq(jobs, LAMBDA job : matchesQuery(job, toLowerCase(q.text)))
    ELSE jobs

filterByLocation(jobs, location) ==
  IF Truthy(location)
    THEN SelectSeq(jobs, LAMBDA job : matchesLocation(job, toLowerCase(location.text)))
    ELSE jobs

\* the filtered list turned round (newest first)
filterJobs_reversed(allJobs, q, location) ==
  LET kept == filterByLocation(filterByQuery(allJobs, q), location)
  IN [i \in 1..Len(kept) |-> kept[Len(kept) + 1 - i]]

\* the location filter run on allJobs, not on what the q filter left
filterJobs_locationFromAll(allJobs, q, location) ==
  IF Truthy(location)
    THEN filterByLocation(allJobs, location)
    ELSE filterByQuery(allJobs, q)

\* filteredJobs after both filters: q first, then location
filterJobs(allJobs, q, location) ==
  filterByLocation(filterByQuery(allJobs, q), location)

\* q.toLowerCase() on a value that passed the test but is not a string throws
throwsTypeError(q, location) ==
  \/ Truthy(q) /\ q.kind # "string"
  \/ Truthy(location) /\ location.kind # "string"

TypeErrorMessage == "q.toLowerCase is not a function"

\* a page cursor kept between calls: without a page, the page after the one
\* an earlier search returned
effectivePage_cursor(page) ==
  IF page.given THEN page.v
  ELSE IF seen.call.op = "search" /\ seen.response.settled = "resolve"
         THEN seen.response.pagination.page + 1
         ELSE DefaultPage

\* a page number below 1 raised to 1
effectivePage_clamped(page) ==
  IF page.given THEN (IF page.v < 1 THEN 1 ELSE page.v) ELSE DefaultPage

\* parameter defaults: page = 1, limit = 10
effectivePage(page) == IF page.given THEN page.v ELSE DefaultPage

\* another default page size
effectiveLimit_default20(limit) == IF limit.given THEN limit.v ELSE 20

effectiveLimit(limit) == IF limit.given THEN limit.v ELSE DefaultLimit

\* Math.floor in place of Math.ceil
totalPagesOf_floor(total, limit) ==
  IF limit = 0
    THEN (IF total = 0 THEN Num("NaN", 0) ELSE Num("Infinity", 0))
    ELSE IF limit > 0
      THEN Num("finite", total \div limit)
      ELSE Num("finite", 0 - (total \div (0 - limit)))

\* Math.ceil(total / limit) for total >= 0
totalPagesOf(total, limit) ==
  IF limit = 0
    THEN (IF total = 0 THEN Num("NaN", 0) ELSE Num("Infinity", 0))
    ELSE IF limit > 0
      THEN Num("finite", (total \div limit) + (IF total % limit = 0 THEN 0 ELSE 1))
      ELSE Num("finite", 0 - (total \div (0 - limit)))

\* a 0-based page number: page * limit
startIndexOf_zeroBased(page, limit) == page * limit

startIndexOf(page, limit) == (page - 1) * limit

endIndexOf(startIndex, limit) == startIndex + limit

\* Array.prototype.slice(start, end): negative indices count from the end
relativeIndex(i, len) ==
  IF i < 0 THEN (IF len + i < 0 THEN 0 ELSE len + i)
           ELSE (IF i > len THEN len ELSE i)

slice(seq, start, end) ==
  LET k == relativeIndex(start, Len(seq))
      final == relativeIndex(end, Len(seq))
  IN IF final > k THEN SubSeq(seq, k + 1, final) ELSE <<>>

\* Array.prototype.splice in place of slice: the window is cut out of the
\* array it is called on
sliceLeaves_splice(seq, start, end) ==
  LET k == relativeIndex(start, Len(seq))
      count == IF end - start < 0 THEN 0 ELSE end - start
      final == IF k + count > Len(seq) THEN Len(seq) ELSE k + count
  IN SubSeq(seq, 1, k) \o SubSeq(seq, final + 1, Len(seq))

\* slice copies: the array it is called on is left as it was
sliceLeaves(seq, start, end) == seq

\* allJobs when the handler is done: filteredJobs is allJobs itself while no
\* filter has run (filter returns a new array), and it is the array sliced
allJobsAtEnd(file, q, location, pageArg, limitArg) ==
  LET allJobs == loadRecords(file)
      startIndex == startIndexOf(effectivePage(pageArg), effectiveLimit(limitArg))
      endIndex == endIndexOf(startIndex, effectiveLimit(limitArg))
  IN IF Truthy(q) \/ Truthy(location)
       THEN allJobs
       ELSE sliceLeaves(allJobs, startIndex, endIndex)

\* the catch block reporting the exception as a NotFound
searchAndListJobsResponse_catch404(file, q, location, pageArg, limitArg) ==
  IF throwsTypeError(q, location)
    THEN rejectResponse(TypeErrorMessage, NotFoundStatus)
    ELSE
      LET page == effectivePage(pageArg)
          limit == effectiveLimit(limitArg)
          filteredJobs == filterJobs(loadRecords(file), q, location)
          total == Len(filteredJobs)
          paginatedJobs == slice(filteredJobs, startIndexOf(page, limit),
                                 endIndexOf(startIndexOf(page, limit), limit))
          pagination == [total |-> total, page |-> page, limit |-> limit,
                         totalPages |-> totalPagesOf(total, limit)]
      IN successResponse(paginatedJobs, pagination, NoJob)

\* the promise settled by searchAndListJobs({ q, location, page, limit })
searchAndListJobsResponse(file, q, location, pageArg, limitArg) ==
  IF throwsTypeError(q, location)
    THEN rejectResponse(TypeErrorMessage, FallbackStatus)
    ELSE
      LET page == effectivePage(pageArg)
          limit == effectiveLimit(limitArg)
          filteredJobs == filterJobs(loadRecords(file), q, location)
          total == Len(filteredJobs)
          totalPages == totalPagesOf(total, limit)
          startIndex == startIndexOf(page, limit)
          endIndex == endIndexOf(startIndex, limit)
          paginatedJobs == slice(filteredJobs, startIndex, endIndex)
          pagination == [total |-> total, page |-> page, limit |-> limit,
                         totalPages |-> totalPages]
      IN successResponse(paginatedJobs, pagination, NoJob)

----------------------------------------------------------------------------
(* getJobDetails *)

\* find(job => job.id = jobId): an assignment in place of the comparison
findById_assignment(jobDetails, jobId) ==
  IF jobDetails = <<>> \/ jobId = "" THEN <<>>
  ELSE <<[jobDetails[1] EXCEPT !.id = jobId]>>

\* Array.prototype.find(job => job.id === jobId): the first match, if any
findById(jobDetails, jobId) ==
  LET hits == SelectSeq(jobDetails, LAMBDA job : job.id = jobId)
  IN IF hits = <<>> THEN <<>> ELSE <<hits[1]>>

\* getJobDetails without the if (!jobDetail) branch: reading the missing
\* record throws and the catch block rejects with the fallback status
getJobDetailsResponse_noGuard(file, jobId) ==
  LET jobDetail == findById(loadRecords(file), jobId)
  IN IF jobDetail = <<>>
       THEN rejectResponse("Cannot read properties of undefined (reading 'id')",
                           FallbackStatus)
       ELSE successResponse(<<>>, NoPagination, jobDetail[1])

\* the promise settled by getJobDetails({ jobId })
getJobDetailsResponse(file, jobId) ==
  LET jobDetail == findById(loadRecords(file), jobId)
  IN IF jobDetail = <<>>
       THEN rejectResponse("Job not found", NotFoundStatus)
       ELSE successResponse(<<>>, NoPagination, jobDetail[1])

----------------------------------------------------------------------------
(* State machine *)

NoCall ==
  [op |-> "none", q |-> StrArg("undefined", <<>>),
   location |-> StrArg("undefined", <<>>), page |-> IntArg(FALSE, 0),
   limit |-> IntArg(FALSE, 0), jobId |-> ""]

NoLocals == [loaded |-> <<>>, filtered |-> <<>>]

NoSeen == [call |-> NoCall, response |-> NoResponse]

Slots == 1..MaxInflight

\* no invocation in this slot
IdleFrame ==
  [pc |-> "idle", call |-> NoCall, allJobs |-> <<>>, filteredJobs |-> <<>>,
   jobDetails |-> <<>>, settles |-> <<>>]

Init ==
  /\ jobsFile \in JobsFiles
  /\ detailsFile \in DetailsFiles
  /\ call = NoCall
  /\ locals = NoLocals
  /\ response = NoResponse
  /\ seen = NoSeen
  /\ frames = [s \in Slots |-> IdleFrame]

\* one invocation of searchAndListJobs
SearchAndListJobs(q, location, page, limit) ==
  /\ response.settled = "none"
  /\ call' = [NoCall EXCEPT !.op = "search", !.q = q, !.location = location,
                            !.page = page, !.limit = limit]
  /\ locals' = [loaded |-> allJobsAtEnd(jobsFile, q, location, page, limit),
                filtered |-> IF throwsTypeError(q, location) THEN <<>>
                             ELSE filterJobs(loadRecords(jobsFile), q, location)]
  /\ response' = searchAndListJobsResponse(jobsFile, q, location, page, limit)
  /\ UNCHANGED <<jobsFile, detailsFile, seen, frames>>

\* one invocation of getJobDetails
GetJobDetails(jobId) ==
  /\ response.settled = "none"
  /\ call' = [NoCall EXCEPT !.op = "detail", !.jobId = jobId]
  /\ locals' = [loaded |-> loadRecords(detailsFile), filtered |-> <<>>]
  /\ response' = getJobDetailsResponse(detailsFile, jobId)
  /\ UNCHANGED <<jobsFile, detailsFile, seen, frames>>

\* the calling layer consumes the settled promise and sends the reply
SendResponse ==
  /\ response.settled # "none"
  /\ call' = NoCall
  /\ locals' = NoLocals
  /\ response' = NoResponse
  /\ UNCHANGED <<jobsFile, detailsFile, seen, frames>>

Next ==
  \/ \E q \in QArgs, location \in LocationArgs, page \in PageArgs, limit \in LimitArgs :
       SearchAndListJobs(q, location, page, limit)
  \/ \E jobId \in JobIds : GetJobDetails(jobId)
  \/ SendResponse

Spec == Init /\ [][Next]_vars

----------------------------------------------------------------------------
(* Repeated calls: a caller keeps the outcome of one call and goes on      *)
(* calling, with arguments from smaller sets                               *)

RepeatQArgs ==
  { StrArg("undefined", <<>>), StrArg("string", <<"e","n">>), StrArg("array", <<"e","n">>) }

RepeatLocationArgs == { StrArg("undefined", <<>>), StrArg("string", <<"N","y">>) }

RepeatPageArgs == { IntArg(FALSE, 0), IntArg(TRUE, 2) }

RepeatLimitArgs == { IntArg(FALSE, 0), IntArg(TRUE, 1) }

RepeatJobIds == { "j1", "zz" }

\* the caller consumes the settled promise and keeps call and outcome
KeepResponse ==
  /\ response.settled # "none"
  /\ seen = NoSeen
  /\ seen' = [call |-> call, response |-> response]
  /\ call' = NoCall
  /\ locals' = NoLocals
  /\ response' = NoResponse
  /\ UNCHANGED <<jobsFile, detailsFile, frames>>

NextRepeat ==
  \/ \E q \in RepeatQArgs, location \in RepeatLocationArgs,
        page \in RepeatPageArgs, limit \in RepeatLimitArgs :
       SearchAndListJobs(q, location, page, limit)
  \/ \E jobId \in RepeatJobIds : GetJobDetails(jobId)
  \/ SendResponse
  \/ KeepResponse

SpecRepeat == Init /\ [][NextRepeat]_vars

----------------------------------------------------------------------------
(* Vocabulary of the properties, stated without the handler's operators *)

\* the effective arguments of the invocation that has settled
PageUsed == IF call.page.given THEN call.page.v ELSE 1

LimitUsed == IF call.limit.given THEN call.limit.v ELSE 10

SearchSettled == call.op = "search" /\ response.settled # "none"

DetailSettled == call.op = "detail" /\ response.settled # "none"

NotFound(message) ==
  response.settled = "reject" /\ response.code = 404 /\ response.error = message

\* a filter parameter that is omitted, null or the empty string
Absent(arg) == arg.kind = "undefined" \/ arg.kind = "null" \/ arg.text = <<>>

\* the call is within the operation's signature: q and location are strings
\* or absent
ContractCall ==
  /\ Absent(call.q) \/ call.q.kind = "string"
  /\ Absent(call.location) \/ call.location.kind = "string"

\* ceil(total / limit) for limit >= 1: the least n with n * limit >= total
CeilOf(total, limit) ==
  CHOOSE n \in 0..total : n * limit >= total /\ (n = 0 \/ (n - 1) * limit < total)

\* the elements of seq at the 0-based indices [(p-1)*limit, (p-1)*limit+limit),
\* cut at the end of seq
Window(seq, p, limit) ==
  LET first == (p - 1) * limit
      count == IF Len(seq) - first < 0 THEN 0
               ELSE IF Len(seq) - first < limit THEN Len(seq) - first ELSE limit
  IN [i \in 1..count |-> seq[first + i]]

----------------------------------------------------------------------------
(* C1: whenever the set of records left after the q and location filters  *)
(* is empty, search fails with NotFound (404) "No jobs found", for every   *)
(* page and limit; it never succeeds with an empty jobs list.              *)
C1_EmptyResultIsNotFound ==
  (SearchSettled /\ ContractCall /\ Len(locals.filtered) = 0) => NotFound("No jobs found")

(* C2: when the filtered set is non-empty and page > totalPages, search    *)
(* fails with NotFound (404) "Page number exceeds available pages".        *)
C2_PageBeyondLastIsNotFound ==
  (/\ SearchSettled
   /\ LimitUsed >= 1
   /\ Len(locals.filtered) > 0
   /\ PageUsed > CeilOf(Len(locals.filtered), LimitUsed))
    => NotFound("Page number exceeds available pages")

(* C3: on success for page p >= 1 and page size limit >= 1 the returned    *)
(* jobs are the elements of the filtered sequence at the indices           *)
(* [(p-1)*limit, (p-1)*limit+limit), in order; with the 10 records and     *)
(* limit 5, page 1 is [0..5), page 2 is [5..10) and page 3 fails.          *)
C3_PageIsWindowAndThirdPageFails ==
  /\ (SearchSettled /\ response.settled = "resolve" /\ PageUsed >= 1 /\ LimitUsed >= 1)
       => response.jobs = Window(locals.filtered, PageUsed, LimitUsed)
  /\ (SearchSettled /\ locals.filtered = TenJobs /\ LimitUsed = 5)
       => /\ PageUsed = 1 => response.jobs = SubSeq(TenJobs, 1, 5)
          /\ PageUsed = 2 => response.jobs = SubSeq(TenJobs, 6, 10)
          /\ PageUsed = 3 => NotFound("Page number exceeds available pages")

\* the same letter, whatever the case
UpperLower ==
  { <<"A","a">>, <<"B","b">>, <<"C","c">>, <<"D","d">>, <<"E","e">>, <<"G","g">>,
    <<"L","l">>, <<"N","n">>, <<"O","o">>, <<"P","p">>, <<"Q","q">>, <<"S","s">>,
    <<"V","v">>, <<"X","x">>, <<"Y","y">>, <<"Z","z">> }

SameLetter(c, d) == c = d \/ <<c, d>> \in UpperLower \/ <<d, c>> \in UpperLower

\* term is a substring of field, case-insensitively
OccursIn(term, field) ==
  \E i \in 1..(Len(field) - Len(term) + 1) :
    \A k \in 1..Len(term) : SameLetter(field[i + k - 1], term[k])

\* a filter parameter that is present and non-empty
Given(arg) == arg.kind = "string" /\ Len(arg.text) > 0

QKeeps(job) ==
  \/ OccursIn(call.q.text, job.title)
  \/ OccursIn(call.q.text, job.company)
  \/ OccursIn(call.q.text, job.location)

LocationKeeps(job) == OccursIn(call.location.text, job.location)

\* the records of the collection that the filters of the call keep, in order
Kept ==
  SelectSeq(jobsFile.records,
            LAMBDA job : /\ Given(call.q) => QKeeps(job)
                         /\ Given(call.location) => LocationKeeps(job))

----------------------------------------------------------------------------
(* C4: total is the number of records remaining after filtering and        *)
(* totalPages is ceil(total / limit) for every limit >= 1, with            *)
(* totalPages = 0 when total = 0.                                          *)
C4_TotalAndTotalPages ==
  (SearchSettled /\ response.settled = "resolve" /\ LimitUsed >= 1) =>
    /\ response.pagination.total = Len(Kept)
    /\ response.pagination.totalPages = Num("finite", CeilOf(Len(Kept), LimitUsed))
    /\ Len(Kept) = 0 => response.pagination.totalPages.v = 0

\* a filter left 3 of 10 records and limit 2 gives a last page that is not full
C4_Witness ==
  /\ SearchSettled /\ response.settled = "resolve"
  /\ Len(jobsFile.records) = 10
  /\ response.pagination.total = 3
  /\ response.pagination.limit = 2
  /\ response.pagination.totalPages.v = 2

\* the jobs of pages p..last of the call's query, one call per page
RECURSIVE PagesFrom(_, _)
PagesFrom(p, last) ==
  IF p > last THEN <<>>
  ELSE searchAndListJobsResponse(jobsFile, call.q, call.location,
                                 IntArg(TRUE, p), call.limit).jobs
         \o PagesFrom(p + 1, last)

(* C5: for every non-empty filtered sequence and every limit >= 1, the     *)
(* jobs of the successful calls for pages 1..totalPages, concatenated,     *)
(* are the filtered sequence: every record once, in the original order.    *)
C5_PagesReconstructFiltered ==
  (SearchSettled /\ response.settled = "resolve" /\ LimitUsed >= 1 /\ Len(Kept) > 0) =>
    /\ \A p \in 1..response.pagination.totalPages.v :
         searchAndListJobsResponse(jobsFile, call.q, call.location,
                                   IntArg(TRUE, p), call.limit).settled = "resolve"
    /\ PagesFrom(1, response.pagination.totalPages.v) = Kept

\* 10 records in pages of 3: four pages, the last one holding one record
C5_Witness ==
  /\ SearchSettled /\ response.settled = "resolve"
  /\ response.pagination.total = 10
  /\ response.pagination.limit = 3
  /\ response.pagination.totalPages.v = 4
  /\ response.pagination.page = 4
  /\ Len(response.jobs) = 1

----------------------------------------------------------------------------
C7_LocationFilterAndIntersection ==
  (SearchSettled /\ Given(call.location)) =>
    /\ Absent(call.q) => locals.filtered = SelectSeq(jobsFile.records, LocationKeeps)
    /\ Given(call.q) =>
         locals.filtered =
           SelectSeq(jobsFile.records, LAMBDA job : QKeeps(job) /\ LocationKeeps(job))

\* both filters given; one record matches both, another matches q alone
C7_Witness ==
  /\ SearchSettled /\ Given(call.q) /\ Given(call.location)
  /\ Len(locals.filtered) = 1
  /\ \E i \in 1..Len(jobsFile.records) :
       QKeeps(jobsFile.records[i]) /\ ~LocationKeeps(jobsFile.records[i])

(* C8: a filter parameter that is omitted, null or the empty string        *)
(* imposes no constraint; with both q and location absent the filtered     *)
(* sequence is the whole collection, total is the collection size and the  *)
(* pages are slices of the full collection.                                *)
C8_AbsentFiltersImposeNothing ==
  (SearchSettled /\ ContractCall) =>
    /\ Absent(call.q) =>
         locals.filtered =
           SelectSeq(jobsFile.records,
                     LAMBDA job : Absent(call.location) \/ LocationKeeps(job))
    /\ Absent(call.location) =>
         locals.filtered =
           SelectSeq(jobsFile.records, LAMBDA job : Absent(call.q) \/ QKeeps(job))
    /\ (Absent(call.q) /\ Absent(call.location)) =>
         /\ response.settled = "resolve"
         /\ locals.filtered = jobsFile.records
         /\ response.pagination.total = Len(jobsFile.records)
         /\ (PageUsed >= 1 /\ LimitUsed >= 1) =>
              response.jobs = Window(jobsFile.records, PageUsed, LimitUsed)

\* q is null and location is "": the whole two-record collection comes back
C8_Witness ==
  /\ SearchSettled /\ response.settled = "resolve"
  /\ call.q.kind = "null"
  /\ call.location.kind = "string" /\ call.location.text = <<>>
  /\ Len(jobsFile.records) = 2
  /\ response.jobs = jobsFile.records

(* C9: when the detail collection contains a record whose id equals the    *)
(* requested jobId, getDetail succeeds and returns that record with every  *)
(* field unmodified.                                                       *)
C9_DetailFound ==
  DetailSettled =>
    \A i \in 1..Len(detailsFile.records) :
      detailsFile.records[i].id = call.jobId =>
        /\ response.settled = "resolve"
        /\ response.code = 200
        /\ response.job = detailsFile.records[i]

\* the requested record is the second of two
C9_Witness ==
  /\ DetailSettled /\ response.settled = "resolve"
  /\ Len(detailsFile.records) = 2
  /\ detailsFile.records[2].id = call.jobId
  /\ response.job = detailsFile.records[2]

(* C10: when no record of the detail collection has the requested id       *)
(* (the collection may be empty), getDetail fails with NotFound, status    *)
(* 404, message "Job not found"; never a success or a non-404 failure.     *)
C10_DetailNotFound ==
  (DetailSettled /\ \A i \in 1..Len(detailsFile.records) :
                       detailsFile.records[i].id # call.jobId)
    => NotFound("Job not found")

\* two detail records, neither with the requested id
C10_Witness ==
  /\ DetailSettled /\ response.settled = "reject"
  /\ detailsFile.kind = "ok" /\ Len(detailsFile.records) = 2
  /\ \A i \in 1..2 : detailsFile.records[i].id # call.jobId

----------------------------------------------------------------------------
(* C11: the pagination descriptor of every successful search is            *)
(* {total, page, limit, totalPages} with page and limit exactly the        *)
(* effective values of the call (supplied or default), not clamped.        *)
C11_PaginationEchoesPageAndLimit ==
  (SearchSettled /\ response.settled = "resolve") =>
    /\ DOMAIN response.pagination = {"total", "page", "limit", "totalPages"}
    /\ response.pagination.page = PageUsed
    /\ response.pagination.limit = LimitUsed
    /\ response.pagination.total = Len(Kept)

\* page -1 and limit 0 come back as they were supplied
C11_Witness ==
  /\ SearchSettled /\ response.settled = "resolve"
  /\ call.page.given /\ call.page.v = -1 /\ response.pagination.page = -1
  /\ call.limit.given /\ call.limit.v = 0 /\ response.pagination.limit = 0

\* the first n elements of seq, or all of them when there are fewer
FirstOf(seq, n) == [i \in 1..(IF Len(seq) < n THEN Len(seq) ELSE n) |-> seq[i]]

(* C12: page defaults to 1 and limit to 10: a call with neither returns    *)
(* the first 10 records of the filtered sequence (all of them when there   *)
(* are fewer) with pagination.page = 1 and pagination.limit = 10.          *)
C12_DefaultPageAndLimit ==
  (SearchSettled /\ response.settled = "resolve") =>
    /\ ~call.page.given => response.pagination.page = 1
    /\ ~call.limit.given => response.pagination.limit = 10
    /\ (~call.page.given /\ ~call.limit.given) => response.jobs = FirstOf(Kept, 10)

\* no page, no limit, 23 records: the first 10 come back
C12_Witness ==
  /\ SearchSettled /\ response.settled = "resolve"
  /\ ~call.page.given /\ ~call.limit.given
  /\ response.pagination.total = 23
  /\ Len(response.jobs) = 10
  /\ response.jobs[10] = jobsFile.records[10]

----------------------------------------------------------------------------
(* C13: when the backing source of a collection is missing or malformed    *)
(* the load yields an empty collection and the engine keeps answering:     *)
(* search fails with NotFound "No jobs found" and getDetail with NotFound  *)
(* "Job not found"; never a crash or another error.                        *)
C13_FailSoftLoad ==
  /\ (SearchSettled /\ ContractCall /\ jobsFile.kind = "unreadable")
       => NotFound("No jobs found")
  /\ (DetailSettled /\ detailsFile.kind = "unreadable") => NotFound("Job not found")

(* C14, as stated: every search invocation ends in exactly one of success, *)
(* NotFound "No jobs found" or NotFound "Page number exceeds available     *)
(* pages"; the core raises no other failure.                               *)
C14_EveryOutcomeIsOneOfThree ==
  SearchSettled =>
    \/ response.settled = "resolve"
    \/ NotFound("No jobs found")
    \/ NotFound("Page number exceeds available pages")

(* C14, amended: every search invocation whose q and location are each a   *)
(* string or absent ends in exactly one of success, NotFound "No jobs      *)
(* found" or NotFound "Page number exceeds available pages".               *)
C14_ContractOutcomeIsOneOfThree ==
  (SearchSettled /\ ContractCall) =>
    Cardinality({ o \in {"success", "none found", "page exceeds"} :
                    \/ o = "success" /\ response.settled = "resolve" /\ response.code = 200
                    \/ o = "none found" /\ NotFound("No jobs found")
                    \/ o = "page exceeds" /\ NotFound("Page number exceeds available pages") })
      = 1

\* a search with both filters given, over a readable collection, has settled
C14_Witness ==
  /\ SearchSettled /\ Given(call.q) /\ Given(call.location)
  /\ jobsFile.kind = "ok" /\ Len(locals.filtered) > 0
  /\ response.settled = "resolve"

C16_NoSideEffects ==
  [][/\ jobsFile' = jobsFile
     /\ detailsFile' = detailsFile
     /\ call'.op = "search" => locals'.loaded = jobsFile.records
     /\ call'.op = "detail" => locals'.loaded = detailsFile.records]_vars

\* an unfiltered search returned a proper, non-empty part of the collection
C16_Witness ==
  /\ SearchSettled /\ response.settled = "resolve"
  /\ Absent(call.q) /\ Absent(call.location)
  /\ Len(response.jobs) > 0 /\ Len(response.jobs) < Len(jobsFile.records)
  /\ locals.loaded = jobsFile.records

----------------------------------------------------------------------------
----------------------------------------------------------------------------
(* C18: whenever search succeeds (total > 0 and page <= totalPages) the    *)
(* returned jobs sequence is non-empty; stated for page >= 1, limit >= 1.  *)
C18_SuccessIsNonEmpty ==
  (SearchSettled /\ response.settled = "resolve" /\ PageUsed >= 1 /\ LimitUsed >= 1)
    => Len(response.jobs) > 0

\* the position of a returned job in the collection as loaded (ids are unique)
PositionOf(job) ==
  CHOOSE i \in 1..Len(jobsFile.records) : jobsFile.records[i] = job

(* C19: the jobs of every successful search are a subsequence of the       *)
(* collection in its load order; records are never reordered, with or      *)
(* without filters.                                                        *)
C19_OrderPreserved ==
  (SearchSettled /\ response.settled = "resolve") =>
    /\ \A k \in 1..Len(response.jobs) :
         \E i \in 1..Len(jobsFile.records) : jobsFile.records[i] = response.jobs[k]
    /\ \A k \in 1..(Len(response.jobs) - 1) :
         PositionOf(response.jobs[k]) < PositionOf(response.jobs[k + 1])

\* a filtered second page holding two records that are not neighbours in the
\* collection
C19_Witness ==
  /\ SearchSettled /\ response.settled = "resolve"
  /\ Given(call.location) /\ response.pagination.page = 2
  /\ Len(response.jobs) = 2
  /\ PositionOf(response.jobs[2]) > PositionOf(response.jobs[1]) + 1

(* C20: as the header comment of searchAndListJobs documents, q filters by *)
(* title, company, or description: a job whose description contains q is   *)
(* selected by the q filter.                                               *)
C20_DescriptionMatches ==
  (SearchSettled /\ Given(call.q) /\ Absent(call.location)) =>
    \A i \in 1..Len(jobsFile.records) :
      OccursIn(call.q.text, jobsFile.records[i].description) =>
        \E k \in 1..Len(locals.filtered) : locals.filtered[k] = jobsFile.records[i]

----------------------------------------------------------------------------
(* C21: search with limit = 0 does not divide by zero: the call yields a   *)
(* defined outcome whose totalPages is a well-defined non-negative         *)
(* integer, for every total.                                               *)
C21_LimitZeroTotalPagesDefined ==
  (SearchSettled /\ ContractCall /\ call.limit.given /\ call.limit.v = 0) =>
    \/ response.settled = "reject"
    \/ /\ response.settled = "resolve"
       /\ response.pagination.totalPages.kind = "finite"
       /\ response.pagination.totalPages.v >= 0

----------------------------------------------------------------------------
(* C26: for every integer page (0 and negative values included) and every  *)
(* limit >= 1, a successful search has 1 <= pagination.page <=             *)
(* pagination.totalPages; a page below 1 never produces a success.         *)
C26_SuccessPageWithinRange ==
  (SearchSettled /\ ContractCall /\ LimitUsed >= 1) =>
    /\ response.settled = "resolve" =>
         /\ 1 <= response.pagination.page
         /\ response.pagination.totalPages.kind = "finite"
         /\ response.pagination.page <= response.pagination.totalPages.v
    /\ PageUsed < 1 => response.settled # "resolve"

----------------------------------------------------------------------------
(* C28: the two filters commute: the location filter followed by the q     *)
(* filter gives the same sequence (same records, same order) as the q      *)
(* filter followed by the location filter, which is what the handler       *)
(* computes, for every collection, q and location.                         *)
C28_FiltersCommute ==
  (SearchSettled /\ ContractCall) =>
    LET collection == loadRecords(jobsFile)
        locationFirst == filterByQuery(filterByLocation(collection, call.location), call.q)
        queryFirst == filterByLocation(filterByQuery(collection, call.q), call.location)
    IN /\ locationFirst = queryFirst
       /\ locationFirst = locals.filtered

\* each filter alone drops a different one of two records, so the two orders
\* pass through different intermediate sequences
C28_Witness ==
  /\ SearchSettled /\ Given(call.q) /\ Given(call.location)
  /\ Len(jobsFile.records) = 2
  /\ Len(filterByQuery(jobsFile.records, call.q)) = 1
  /\ Len(filterByLocation(jobsFile.records, call.location)) = 1
  /\ filterByQuery(jobsFile.records, call.q) # filterByLocation(jobsFile.records, call.location)
  /\ locals.filtered = <<>>

----------------------------------------------------------------------------
(* C24: summaries and details are the same job set: for every job a        *)
(* successful search returned, getDetail called with that job's id         *)
(* succeeds and returns a record with the same id, whatever the state of   *)
(* the two loaded collections (a failed load of either included).          *)
C24_ReturnedJobHasDetail ==
  (/\ DetailSettled
   /\ seen.call.op = "search" /\ seen.response.settled = "resolve"
   /\ \E k \in 1..Len(seen.response.jobs) : seen.response.jobs[k].id = call.jobId)
    => /\ response.settled = "resolve"
       /\ response.job.id = call.jobId

----------------------------------------------------------------------------
(* The second searchAndListJobs, over records whose company is an object   *)
(* with a name                                                             *)

\* the predicate of its q filter, query already lower-cased
matchesQueryByCompanyName(job, query) ==
  \/ includes(toLowerCase(job.title), query)
  \/ includes(toLowerCase(job.company.name), query)
  \/ includes(toLowerCase(job.location), query)

\* the promise it settles: NotFound when nothing is left after the filters or
\* the page is beyond the last one, the sliced page otherwise
searchAndListJobsByCompanyName(file, q, location, pageArg, limitArg) ==
  LET page == effectivePage(pageArg)
      limit == effectiveLimit(limitArg)
      byQuery == IF Truthy(q)
                   THEN SelectSeq(loadRecords(file),
                          LAMBDA job : matchesQueryByCompanyName(job, toLowerCase(q.text)))
                   ELSE loadRecords(file)
      filteredJobs == filterByLocation(byQuery, location)
      total == Len(filteredJobs)
      totalPages == totalPagesOf(total, limit)
      startIndex == startIndexOf(page, limit)
      paginatedJobs == slice(filteredJobs, startIndex, endIndexOf(startIndex, limit))
      pagination == [total |-> total, page |-> page, limit |-> limit,
                     totalPages |-> totalPages]
  IN IF total = 0
       THEN rejectResponse("No jobs found", NotFoundStatus)
       ELSE IF totalPages.kind = "finite" /\ page > totalPages.v
         THEN rejectResponse("Page number exceeds available pages", NotFoundStatus)
         ELSE successResponse(paginatedJobs, pagination, NoJob)

\* the same records with the company name held in an object
WithCompanyObject(jobs) ==
  [i \in 1..Len(jobs) |-> [jobs[i] EXCEPT !.company = [name |-> jobs[i].company]]]

----------------------------------------------------------------------------
(* The backing source changes while the service runs: between two calls a  *)
(* data file is removed                                                    *)

RemoveJobsFile ==
  /\ response.settled = "none"
  /\ jobsFile.kind # "unreadable"
  /\ jobsFile' = File("unreadable", <<>>)
  /\ UNCHANGED <<detailsFile, call, locals, response, seen, frames>>

RemoveDetailsFile ==
  /\ response.settled = "none"
  /\ detailsFile.kind # "unreadable"
  /\ detailsFile' = File("unreadable", <<>>)
  /\ UNCHANGED <<jobsFile, call, locals, response, seen, frames>>

NextSourceChange ==
  \/ \E q \in RepeatQArgs, location \in RepeatLocationArgs,
        page \in RepeatPageArgs, limit \in RepeatLimitArgs :
       SearchAndListJobs(q, location, page, limit)
  \/ \E jobId \in RepeatJobIds : GetJobDetails(jobId)
  \/ SendResponse
  \/ KeepResponse
  \/ RemoveJobsFile
  \/ RemoveDetailsFile

SpecSourceChange == Init /\ [][NextSourceChange]_vars

(* C23: both collections are populated once at startup and held for the    *)
(* service's lifetime: a change of the backing source after startup does   *)
(* not change any result, so a call made before the change and the same    *)
(* call made after it have the same outcome.                               *)
C23_SourceChangeKeepsResults ==
  (/\ response.settled # "none"
   /\ seen.call.op \in {"search", "detail"}
   /\ call.op = seen.call.op
   /\ call.q = seen.call.q /\ call.location = seen.call.location
   /\ call.page = seen.call.page /\ call.limit = seen.call.limit
   /\ call.jobId = seen.call.jobId)
    => /\ response.settled = seen.response.settled
       /\ response.code = seen.response.code
       /\ response.jobs = seen.response.jobs
       /\ response.pagination = seen.response.pagination
       /\ response.job = seen.response.job

----------------------------------------------------------------------------
(* Invocations in flight at the same time.  Each invocation runs its       *)
(* handler in steps (load, filter, paginate; load, find) on bindings of    *)
(* its own, and the steps of different invocations interleave freely; the  *)
(* run of one executor to completion is one of these interleavings.        *)

ConcurrentQArgs ==
  { StrArg("undefined", <<>>), StrArg("string", <<"e","n">>), StrArg("array", <<"e","n">>) }

ConcurrentLocationArgs == { StrArg("undefined", <<>>), StrArg("string", <<"N","y">>) }

ConcurrentPageArgs == { IntArg(FALSE, 0) }

ConcurrentLimitArgs == { IntArg(TRUE, 1) }

ConcurrentJobIds == { "j1", "zz" }

\* one binding for the whole module in place of one per invocation
setLocal_moduleLevel(fs, s, name, value) ==
  [t \in DOMAIN fs |-> [fs[t] EXCEPT ![name] = value]]

\* let allJobs, let filteredJobs, let jobDetails are declared inside the
\* promise executor: an assignment reaches the invocation's own binding
setLocal(fs, s, name, value) == [fs EXCEPT ![s][name] = value]

\* lines 100-119 on the invocation's filteredJobs
paginate(filteredJobs, pageArg, limitArg) ==
  LET page == effectivePage(pageArg)
      limit == effectiveLimit(limitArg)
      total == Len(filteredJobs)
      totalPages == totalPagesOf(total, limit)
      startIndex == startIndexOf(page, limit)
      endIndex == endIndexOf(startIndex, limit)
      paginatedJobs == slice(filteredJobs, startIndex, endIndex)
      pagination == [total |-> total, page |-> page, limit |-> limit,
                     totalPages |-> totalPages]
  IN successResponse(paginatedJobs, pagination, NoJob)

\* the reject without the return after it: the executor goes on and also
\* resolves, with the record that was not found
detailSettles_noReturn(jobDetails, jobId) ==
  LET jobDetail == findById(jobDetails, jobId)
  IN IF jobDetail = <<>>
       THEN << rejectResponse("Job not found", NotFoundStatus),
               successResponse(<<>>, NoPagination, NoJob) >>
       ELSE << successResponse(<<>>, NoPagination, jobDetail[1]) >>

\* the calls of reject and resolve made by lines 33-45, in order
detailSettles(jobDetails, jobId) ==
  LET jobDetail == findById(jobDetails, jobId)
  IN IF jobDetail = <<>>
       THEN << rejectResponse("Job not found", NotFoundStatus) >>
       ELSE << successResponse(<<>>, NoPagination, jobDetail[1]) >>

\* searchAndListJobs is invoked and loads data/jobs.json (lines 65-82)
SearchLoad(s, q, location, page, limit) ==
  /\ frames[s].pc = "idle"
  /\ LET invoked == [frames EXCEPT ![s] =
                       [IdleFrame EXCEPT !.pc = "filter",
                          !.call = [NoCall EXCEPT !.op = "search", !.q = q,
                                      !.location = location, !.page = page,
                                      !.limit = limit]]]
         loaded == setLocal(invoked, s, "allJobs", loadRecords(jobsFile))
     IN frames' = setLocal(loaded, s, "filteredJobs", loaded[s].allJobs)
  /\ UNCHANGED <<jobsFile, detailsFile, call, locals, response, seen>>

\* the two filters (lines 84-98); a throw goes to the catch block
SearchFilter(s) ==
  /\ frames[s].pc = "filter"
  /\ LET f == frames[s]
     IN IF throwsTypeError(f.call.q, f.call.location)
          THEN frames' = [frames EXCEPT ![s].pc = "settled",
                            ![s].settles = << rejectResponse(TypeErrorMessage, FallbackStatus) >>]
          ELSE frames' = [setLocal(frames, s, "filteredJobs",
                                   filterJobs(f.filteredJobs, f.call.q, f.call.location))
                            EXCEPT ![s].pc = "paginate"]
  /\ UNCHANGED <<jobsFile, detailsFile, call, locals, response, seen>>

\* pagination and resolve (lines 100-119)
SearchPaginate(s) ==
  /\ frames[s].pc = "paginate"
  /\ frames' = [frames EXCEPT ![s].pc = "settled",
                  ![s].settles = << paginate(frames[s].filteredJobs, frames[s].call.page,
                                             frames[s].call.limit) >>]
  /\ UNCHANGED <<jobsFile, detailsFile, call, locals, response, seen>>

\* getJobDetails is invoked and loads data/job-details.json (lines 13-30)
DetailLoad(s, jobId) ==
  /\ frames[s].pc = "idle"
  /\ LET invoked == [frames EXCEPT ![s] =
                       [IdleFrame EXCEPT !.pc = "find",
                          !.call = [NoCall EXCEPT !.op = "detail", !.jobId = jobId]]]
     IN frames' = setLocal(invoked, s, "jobDetails", loadRecords(detailsFile))
  /\ UNCHANGED <<jobsFile, detailsFile, call, locals, response, seen>>

\* find, then reject and return, or resolve (lines 33-45)
DetailFind(s) ==
  /\ frames[s].pc = "find"
  /\ frames' = [frames EXCEPT ![s].pc = "settled",
                  ![s].settles = detailSettles(frames[s].jobDetails, frames[s].call.jobId)]
  /\ UNCHANGED <<jobsFile, detailsFile, call, locals, response, seen>>

\* the caller's continuation has run: the invocation is over
Deliver(s) ==
  /\ frames[s].pc = "settled"
  /\ frames' = [frames EXCEPT ![s] = IdleFrame]
  /\ UNCHANGED <<jobsFile, detailsFile, call, locals, response, seen>>

\* a step of the invocation in slot s
Step(s) == SearchFilter(s) \/ SearchPaginate(s) \/ DetailFind(s)

NextConcurrent ==
  \/ \E s \in Slots, q \in ConcurrentQArgs, location \in ConcurrentLocationArgs,
        page \in ConcurrentPageArgs, limit \in ConcurrentLimitArgs :
       SearchLoad(s, q, location, page, limit)
  \/ \E s \in Slots : SearchFilter(s)
  \/ \E s \in Slots : SearchPaginate(s)
  \/ \E s \in Slots, jobId \in ConcurrentJobIds : DetailLoad(s, jobId)
  \/ \E s \in Slots : DetailFind(s)
  \/ \E s \in Slots : Deliver(s)

\* the data files under the concurrent invocations: jobs.json unreadable,
\* with the ten-job data set, or with the jobs j1 and j3; job-details.json
\* unreadable or with the details of j1
ConcurrentJobsFiles ==
  { f \in JobsFiles :
      \/ f.kind = "unreadable"
      \/ f.records = TenJobs
      \/ Len(f.records) = 2 /\ f.records[1].id = "j1" /\ f.records[2].id = "j3" }

ConcurrentDetailsFiles ==
  { f \in DetailsFiles :
      \/ f.kind = "unreadable"
      \/ Len(f.records) = 1 /\ f.records[1].id = "j1" }

InitConcurrent ==
  /\ Init
  /\ jobsFile \in ConcurrentJobsFiles
  /\ detailsFile \in ConcurrentDetailsFiles

\* an executor that has been entered runs to its end
SpecConcurrent ==
  InitConcurrent /\ [][NextConcurrent]_vars /\ \A s \in Slots : WF_vars(Step(s))

\* the outcome of the invocation in slot s: the first settle call counts
OutcomeOf(s) == frames[s].settles[1]

(* C22: concurrent invocations are safe without coordination: in every     *)
(* interleaving of concurrent search and getDetail invocations over an     *)
(* unchanged collection, each invocation returns exactly the outcome it    *)
(* would return if it ran alone.                                           *)
C22_ConcurrentEqualsSolo ==
  \A s \in Slots :
    frames[s].pc = "settled" =>
      /\ frames[s].call.op = "search" =>
           OutcomeOf(s) = searchAndListJobsResponse(jobsFile, frames[s].call.q,
                            frames[s].call.location, frames[s].call.page,
                            frames[s].call.limit)
      /\ frames[s].call.op = "detail" =>
           OutcomeOf(s) = getJobDetailsResponse(detailsFile, frames[s].call.jobId)

\* a filtered search has settled while an unfiltered one, begun before it
\* settled, is between its filter and its pagination with more records
C22_Witness ==
  /\ frames[1].pc = "settled" /\ frames[1].call.op = "search"
  /\ Given(frames[1].call.q)
  /\ OutcomeOf(1).settled = "resolve" /\ OutcomeOf(1).pagination.total = 3
  /\ frames[2].pc = "paginate" /\ ~Given(frames[2].call.q)
  /\ Len(frames[2].filteredJobs) = 10

(* C27: every invocation of search or getDetail terminates and settles its *)
(* promise exactly once: it resolves or rejects, never both and never      *)
(* neither, and after a NotFound rejection no success is produced for the  *)
(* same invocation.                                                        *)
C27_SettlesExactlyOnce ==
  /\ [](\A s \in Slots :
          /\ frames[s].pc = "settled" =>
               /\ Len(frames[s].settles) = 1
               /\ frames[s].settles[1].settled \in {"resolve", "reject"}
          /\ frames[s].pc # "settled" => frames[s].settles = <<>>
          /\ \A i, j \in 1..Len(frames[s].settles) :
               (frames[s].settles[i].settled = "reject" /\ frames[s].settles[i].code = 404)
                 => frames[s].settles[j].settled # "resolve")
  /\ \A s \in Slots :
       (frames[s].pc \in {"filter", "paginate", "find"}) ~> (frames[s].pc = "settled")

\* a getDetail for an id that is not in a readable, non-empty collection has
\* been rejected, and only rejected
C27_Witness ==
  \E s \in Slots :
    /\ frames[s].pc = "settled" /\ frames[s].call.op = "detail"
    /\ detailsFile.kind = "ok" /\ Len(detailsFile.records) > 0
    /\ frames[s].settles = << [settled |-> "reject", code |-> 404, error |-> "Job not found",
                               jobs |-> <<>>, pagination |-> NoPagination, job |-> NoJob] >>

====
